---- MODULE Spec2Model ----
(***************************************************************************)
(* Model of enndylove/translation-techniques-ts: four independent scripts  *)
(* that substitute localized strings into a page's DOM.                    *)
(*                                                                         *)
(*   "attributes"  src/translation-data-attributes.ts  flat-map Translator *)
(*   "languages"   src/unnamed/part_000      multi-language Translator     *)
(*   "proxy"       src/translations-proxy.ts:1-40   Proxy Translator       *)
(*   "rules"       src/translations-proxy.ts:41-95  class/text Translate   *)
(*                                                                         *)
(* A JavaScript string is a sequence of one-character strings, so that     *)
(* the empty string, toLowerCase and template-literal concatenation are    *)
(* what they are in the code.  A JavaScript object used as a map is a      *)
(* function whose domain is the set of its own keys.  Keys, language tags  *)
(* and class names are drawn from ordinary words: none is the name of a    *)
(* property inherited from Object.prototype.  An element's innerText is    *)
(* its innerHTML with the tags stripped; only the rules script reads it.   *)
(* The locale-formatting Translator of src/README.md is a listing built on *)
(* Intl.MessageFormat and is not modelled.                                 *)
(***************************************************************************)
EXTENDS Naturals, Sequences, FiniteSets, TLC

\* Number of elements of the page.
NumElems == 2

\* Largest number of records of translateList (the JSON file of the rules script).
MaxRules == 2

---------------------------------------------------------------------------
\* JavaScript values

\* undefined and null where a string is expected: a string is a sequence of
\* one-character strings, so neither is equal to any string.
Undefined == <<"undefined">>

Null == <<"null">>

\* The empty string ''.
EmptyString == << >>

\* ToBoolean of a value that is a string, undefined or null.
Truthy(x) == x # Undefined /\ x # Null /\ x # EmptyString

\* A value that is an object used as a map, undefined or null: props is the
\* function from the object's own keys to their values.
Object(props) == [is |-> "object", props |-> props]

UndefinedObject == [is |-> "undefined", props |-> << >>]

NullObject == [is |-> "null", props |-> << >>]

\* ToBoolean of such a value: {} is truthy.
TruthyObject(x) == x.is = "object"

\* props[key] on the own keys of an object: undefined for a key it has not.
Get(props, key) == IF key \in DOMAIN props THEN props[key] ELSE Undefined

---------------------------------------------------------------------------
\* The words the inputs are drawn from

hello == <<"h", "e", "l", "l", "o">>

goodbye == <<"g", "o", "o", "d", "b", "y", "e">>

Keys == {hello, goodbye}

en == <<"e", "n">>

uk == <<"u", "k">>

fr == <<"f", "r">>

\* The language tags of a language table; fr is a tag of no table.
TableLanguages == {en, uk}

Languages == TableLanguages \cup {fr}

Hello == <<"H", "e", "l", "l", "o">>

Pryvit == <<"P", "r", "y", "v", "i", "t">>

\* The text an element of the page starts with.
Old == <<"o", "l", "d">>

\* The texts a translation entry maps a key to, the empty string among them.
Texts == {EmptyString, Hello, Pryvit}

\* Every partial map from keys to texts: { [key: string]: string }.
Entries == UNION {[S -> Texts] : S \in SUBSET Keys}

\* The entries of one language: its keys map to '' or to the language's word.
EntriesOf(lang) ==
    UNION {[S -> {EmptyString, IF lang = en THEN Hello ELSE Pryvit}] :
             S \in SUBSET Keys}

\* interface Translations { [language: string]: { [key: string]: string } }
Translations ==
    UNION {{t \in [S -> Entries] : \A lang \in S : t[lang] \in EntriesOf(lang)} :
             S \in SUBSET TableLanguages}

menuItem == <<"m", "e", "n", "u", "-", "i", "t", "e", "m">>

other == <<"o", "t", "h", "e", "r">>

Elems == 1 .. NumElems

\* The texts of the rules script: element texts, source texts that differ
\* from them in case only, and a destination text with markup.
porkRibs == <<"r", "i", "b", "s">>

PorkRibs == <<"R", "i", "b", "s">>

steak == <<"s", "t", "e", "a", "k">>

Steik == <<"<", "i", ">", "S", "t", "e", "i", "k", "<", "/", "i", ">">>

\* A record of translateList: { translateItem, translateFor, translateTo }.
\* One record stands for those with an empty class name.
Rules ==
    {r \in [translateItem : {menuItem, EmptyString},
            translateFor : {PorkRibs, steak},
            translateTo : {steak, Steik}] :
        r.translateItem = EmptyString =>
            r.translateFor = PorkRibs /\ r.translateTo = steak}

\* The lists of at most MaxRules records.
RuleLists == UNION {[1 .. n -> Rules] : n \in 0 .. MaxRules}

\* `Translation not found for key: `
NotFoundForKey ==
    <<"T", "r", "a", "n", "s", "l", "a", "t", "i", "o", "n", " ",
      "n", "o", "t", " ", "f", "o", "u", "n", "d", " ",
      "f", "o", "r", " ", "k", "e", "y", ":", " ">>

\* ` in language: `
InLanguage ==
    <<" ", "i", "n", " ", "l", "a", "n", "g", "u", "a", "g", "e", ":", " ">>

---------------------------------------------------------------------------
\* State

VARIABLES
    script,        \* which of the four scripts the page runs
    document,      \* the page: element -> [translate, className, innerHTML]
    translateMap,  \* attributes: Translator.translateMap
    language,      \* languages: Translator.language
    translations,  \* languages and proxy: Translator.translations
    translateList, \* rules: the records imported from the JSON file
    lastOp,        \* the last call made, with its arguments
    prevOp,        \* the call made before it
    before,        \* the page when the last call started
    warnings,      \* the console.warn messages of the last call, in order
    raised,        \* whether the last call threw to its caller
    returned       \* the value the last call returned

vars == <<script, document, translateMap, language, translations, translateList,
          lastOp, prevOp, before, warnings, raised, returned>>

\* The pages of the attribute-keyed scripts: an element carries
\* data-translate="key" or no such attribute.
AttributePages ==
    [Elems -> {[translate |-> k, className |-> menuItem, innerHTML |-> Old] :
                 k \in Keys \cup {Undefined}}]

\* The pages of the rules script: an element has one class and a text.
RulePages ==
    [Elems -> {[translate |-> Undefined, className |-> c, innerHTML |-> t] :
                 c \in {menuItem, other}, t \in {porkRibs, steak}}]

\* What a pass over the page has done so far.
Started(doc) == [document |-> doc, warnings |-> << >>, raised |-> FALSE]

\* The state a call leaves behind: it is now the last call.
Called(op, run) ==
    /\ prevOp' = lastOp
    /\ lastOp' = op
    /\ before' = document
    /\ document' = run.document
    /\ warnings' = run.warnings
    /\ raised' = run.raised

---------------------------------------------------------------------------
\* attributes: the flat-map Translator

\* constructor(translateMap = {}): the default stands in for undefined only.
constructorAttributes(map) == IF map.is = "undefined" THEN Object(<< >>) ELSE map

\* translateElement appending the translation to the element's content.
translateElementAppending(element, map) ==
    LET key == element.translate
        translation == Get(map.props, key)
    IN  IF Truthy(translation)
        THEN [element |-> [element EXCEPT !.innerHTML = @ \o translation],
              warn |-> << >>]
        ELSE [element |-> element, warn |-> <<NotFoundForKey \o key>>]

\* translateElement testing that the key is present, not that its text is
\* truthy.
translateElementIfPresent(element, map) ==
    LET key == element.translate
    IN  IF key \in DOMAIN map.props
        THEN [element |-> [element EXCEPT !.innerHTML = map.props[key]],
              warn |-> << >>]
        ELSE [element |-> element, warn |-> <<NotFoundForKey \o key>>]

\* The forEach callback: look the key up, write the text or warn.
translateElement(element, map) ==
    LET key == element.translate
        translation == Get(map.props, key)
    IN  IF Truthy(translation)
        THEN [element |-> [element EXCEPT !.innerHTML = translation],
              warn |-> << >>]
        ELSE [element |-> element, warn |-> <<NotFoundForKey \o key>>]

\* document.querySelectorAll('[data-translate]').forEach(...), from element i on.
\* Reading a property of null throws a TypeError, which ends the pass.
RECURSIVE translateFrom(_, _, _)
translateFrom(i, run, map) ==
    IF i > NumElems \/ run.raised THEN run
    ELSE IF run.document[i].translate = Undefined
    THEN translateFrom(i + 1, run, map)
    ELSE IF map.is # "object" THEN [run EXCEPT !.raised = TRUE]
    ELSE LET r == translateElement(run.document[i], map)
         IN  translateFrom(i + 1,
                 [run EXCEPT !.document[i] = r.element,
                             !.warnings = run.warnings \o r.warn],
                 map)

NewTranslator ==
    /\ script = "attributes"
    /\ lastOp.op = "load"
    /\ \E map \in {Object(e) : e \in Entries} \cup {UndefinedObject, NullObject} :
          /\ translateMap' = constructorAttributes(map)
          /\ Called([op |-> "new", translateMap |-> map], Started(document))
    /\ returned' = Undefined
    /\ UNCHANGED <<script, language, translations, translateList>>

translate ==
    /\ script = "attributes"
    /\ lastOp.op # "load"
    /\ Called([op |-> "translate"], translateFrom(1, Started(document), translateMap))
    /\ returned' = Undefined
    /\ UNCHANGED <<script, translateMap, language, translations, translateList>>

---------------------------------------------------------------------------
\* languages: the multi-language Translator

\* constructorLanguages without the default language.
constructorLanguagesNoDefault(lang, table) ==
    [language |-> lang,
     translations |-> IF TruthyObject(table) THEN table ELSE Object(<< >>)]

\* constructorLanguages falling back to 'en' for a tag the table has not.
constructorLanguagesUnknownToEn(lang, table) ==
    [language |-> IF Truthy(lang) /\ (~TruthyObject(table) \/ lang \in DOMAIN table.props)
                  THEN lang ELSE en,
     translations |-> IF TruthyObject(table) THEN table ELSE Object(<< >>)]

\* constructor(language, translations): language || 'en', translations || {}.
constructorLanguages(lang, table) ==
    [language |-> IF Truthy(lang) THEN lang ELSE en,
     translations |-> IF TruthyObject(table) THEN table ELSE Object(<< >>)]

\* translateElementIn showing the key in place of a missing translation.
translateElementInKeyAsText(element, lang, table) ==
    LET key == element.translate
        translation == IF lang \in DOMAIN table.props
                       THEN Get(table.props[lang], key)
                       ELSE Undefined
    IN  [element |-> [element EXCEPT !.innerHTML =
                         IF Truthy(translation) THEN translation ELSE key],
         warn |-> << >>]

\* translateElementIn taking a key that the language lacks from 'en'.
translateElementInFallingBackToEn(element, lang, table) ==
    LET key == element.translate
        own == IF lang \in DOMAIN table.props
               THEN Get(table.props[lang], key)
               ELSE Undefined
        translation == IF Truthy(own) \/ en \notin DOMAIN table.props
                       THEN own
                       ELSE Get(table.props[en], key)
    IN  IF Truthy(translation)
        THEN [element |-> [element EXCEPT !.innerHTML = translation],
              warn |-> << >>]
        ELSE [element |-> element,
              warn |-> <<NotFoundForKey \o key \o InLanguage \o lang>>]

\* The forEach callback: this.translations[this.language]?.[key].
translateElementIn(element, lang, table) ==
    LET key == element.translate
        translation == IF lang \in DOMAIN table.props
                       THEN Get(table.props[lang], key)
                       ELSE Undefined
    IN  IF Truthy(translation)
        THEN [element |-> [element EXCEPT !.innerHTML = translation],
              warn |-> << >>]
        ELSE [element |-> element,
              warn |-> <<NotFoundForKey \o key \o InLanguage \o lang>>]

\* translateInFrom reading this.translations[this.language][key] without ?.:
\* a language the table has not makes the lookup throw.
RECURSIVE translateInFromUnguarded(_, _, _, _)
translateInFromUnguarded(i, run, lang, table) ==
    IF i > NumElems \/ run.raised THEN run
    ELSE IF run.document[i].translate = Undefined
    THEN translateInFromUnguarded(i + 1, run, lang, table)
    ELSE IF table.is # "object" \/ lang \notin DOMAIN table.props
    THEN [run EXCEPT !.raised = TRUE]
    ELSE LET r == translateElementIn(run.document[i], lang, table)
         IN  translateInFromUnguarded(i + 1,
                 [run EXCEPT !.document[i] = r.element,
                             !.warnings = run.warnings \o r.warn],
                 lang, table)

RECURSIVE translateInFrom(_, _, _, _)
translateInFrom(i, run, lang, table) ==
    IF i > NumElems \/ run.raised THEN run
    ELSE IF run.document[i].translate = Undefined
    THEN translateInFrom(i + 1, run, lang, table)
    ELSE IF table.is # "object" THEN [run EXCEPT !.raised = TRUE]
    ELSE LET r == translateElementIn(run.document[i], lang, table)
         IN  translateInFrom(i + 1,
                 [run EXCEPT !.document[i] = r.element,
                             !.warnings = run.warnings \o r.warn],
                 lang, table)

NewTranslatorLanguages ==
    /\ script = "languages"
    /\ lastOp.op = "load"
    /\ \E lang \in Languages \cup {EmptyString, Undefined},
          table \in {Object(t) : t \in Translations}
                       \cup {UndefinedObject, NullObject} :
          LET this == constructorLanguages(lang, table)
          IN  /\ language' = this.language
              /\ translations' = this.translations
              /\ Called([op |-> "new", language |-> lang, translations |-> table],
                        Started(document))
    /\ returned' = Undefined
    /\ UNCHANGED <<script, translateMap, translateList>>

\* setLanguageTo applying the new language to the page at once.
setLanguageToAndTranslate(lang, this) ==
    [this EXCEPT !.language = lang,
                 !.run = translateInFrom(1, this.run, lang, this.translations)]

\* this.language = language, and nothing else.
setLanguageTo(lang, this) == [this EXCEPT !.language = lang]

setLanguage ==
    /\ script = "languages"
    /\ lastOp.op # "load"
    /\ \E lang \in Languages :
          LET this == setLanguageTo(lang, [language |-> language,
                                           translations |-> translations,
                                           run |-> Started(document)])
          IN  /\ language' = this.language
              /\ translations' = this.translations
              /\ Called([op |-> "setLanguage", language |-> lang], this.run)
    /\ returned' = Undefined
    /\ UNCHANGED <<script, translateMap, translateList>>

translateLanguages ==
    /\ script = "languages"
    /\ lastOp.op # "load"
    /\ Called([op |-> "translate"],
              translateInFrom(1, Started(document), language, translations))
    /\ returned' = Undefined
    /\ UNCHANGED <<script, translateMap, language, translations, translateList>>

---------------------------------------------------------------------------
\* proxy: the Translator whose constructor returns a Proxy

\* The get trap: target.translations[prop] || `Translation not found for key: ${prop}`.
\* Reading a property of undefined or null throws a TypeError.
get(target, prop) ==
    IF target.is # "object"
    THEN [returned |-> Undefined, raised |-> TRUE]
    ELSE LET translation == Get(target.props, prop)
         IN  [returned |-> IF Truthy(translation) THEN translation
                           ELSE NotFoundForKey \o prop,
              raised |-> FALSE]

\* constructor(private translations): the argument is stored as it is.
NewProxyTranslator ==
    /\ script = "proxy"
    /\ lastOp.op = "load"
    /\ \E map \in {Object(e) : e \in Entries} \cup {UndefinedObject, NullObject} :
          /\ translations' = map
          /\ Called([op |-> "new", translations |-> map], Started(document))
    /\ returned' = Undefined
    /\ UNCHANGED <<script, translateMap, language, translateList>>

\* A property read on the proxy: translator[prop].
proxyGet ==
    /\ script = "proxy"
    /\ lastOp.op # "load"
    /\ \E prop \in Keys :
          LET r == get(translations, prop)
          IN  /\ returned' = r.returned
              /\ Called([op |-> "get", prop |-> prop],
                        [Started(document) EXCEPT !.raised = r.raised])
    /\ UNCHANGED <<script, translateMap, language, translations, translateList>>

---------------------------------------------------------------------------
\* rules: the class/text Translate

UpperCase == <<"A", "B", "C", "D", "E", "F", "G", "H", "I", "J", "K", "L", "M",
               "N", "O", "P", "Q", "R", "S", "T", "U", "V", "W", "X", "Y", "Z">>

LowerCase == <<"a", "b", "c", "d", "e", "f", "g", "h", "i", "j", "k", "l", "m",
               "n", "o", "p", "q", "r", "s", "t", "u", "v", "w", "x", "y", "z">>

\* The lower-case letter of each upper-case letter.
lowerOf ==
    [c \in {UpperCase[j] : j \in DOMAIN UpperCase} |->
        LowerCase[CHOOSE j \in DOMAIN UpperCase : UpperCase[j] = c]]

\* String.prototype.toLowerCase, character by character.
toLowerCase(str) ==
    [i \in DOMAIN str |->
        IF str[i] \in DOMAIN lowerOf THEN lowerOf[str[i]] ELSE str[i]]

\* The rendered text of markup: the characters outside the tags.
RECURSIVE textOf(_, _, _)
textOf(html, i, inTag) ==
    IF i > Len(html) THEN << >>
    ELSE IF html[i] = "<" THEN textOf(html, i + 1, TRUE)
    ELSE IF html[i] = ">" /\ inTag THEN textOf(html, i + 1, FALSE)
    ELSE IF inTag THEN textOf(html, i + 1, TRUE)
    ELSE <<html[i]>> \o textOf(html, i + 1, FALSE)

\* element.innerText, read after element.innerHTML was assigned.
innerText(element) == textOf(element.innerHTML, 1, FALSE)

\* Translate.translate(): every element of the class whose text is the
\* source text, case-insensitively, gets the destination text.
translateRule(rule, doc) ==
    IF Truthy(rule.translateItem)
    THEN [i \in Elems |->
            IF /\ doc[i].className = rule.translateItem
               /\ toLowerCase(innerText(doc[i])) = toLowerCase(rule.translateFor)
            THEN [doc[i] EXCEPT !.innerHTML = rule.translateTo]
            ELSE doc[i]]
    ELSE doc

\* translateList.forEach(item => new Translate(...).translate()), from record i on.
RECURSIVE forEachItem(_, _, _)
forEachItem(list, i, doc) ==
    IF i > Len(list) THEN doc
    ELSE forEachItem(list, i + 1, translateRule(list[i], doc))

\* new Translate(item, for, to).translate() for one record of the list.
TranslateRule ==
    /\ script = "rules"
    /\ \E n \in DOMAIN translateList :
          LET rule == translateList[n]
          IN  Called([op |-> "translate", rule |-> rule],
                     [Started(document) EXCEPT
                         !.document = translateRule(rule, document)])
    /\ returned' = Undefined
    /\ UNCHANGED <<script, translateMap, language, translations, translateList>>

\* The script's loop over translateList.
translateListForEach ==
    /\ script = "rules"
    /\ Called([op |-> "forEach"],
              [Started(document) EXCEPT
                  !.document = forEachItem(translateList, 1, document)])
    /\ returned' = Undefined
    /\ UNCHANGED <<script, translateMap, language, translations, translateList>>

---------------------------------------------------------------------------

Init ==
    /\ script \in {"attributes", "languages", "proxy", "rules"}
    /\ document \in (IF script = "rules" THEN RulePages ELSE AttributePages)
    /\ translateMap = UndefinedObject
    /\ language = Undefined
    /\ translations = UndefinedObject
    /\ translateList \in (IF script = "rules" THEN RuleLists ELSE {<< >>})
    /\ lastOp = [op |-> "load"]
    /\ prevOp = [op |-> "load"]
    /\ before = document
    /\ warnings = << >>
    /\ raised = FALSE
    /\ returned = Undefined

Next ==
    \/ NewTranslator
    \/ translate
    \/ NewTranslatorLanguages
    \/ setLanguage
    \/ translateLanguages
    \/ NewProxyTranslator
    \/ proxyGet
    \/ TranslateRule
    \/ translateListForEach

Spec == Init /\ [][Next]_vars

---------------------------------------------------------------------------
\* What the claims speak of

\* The elements document.querySelectorAll('[data-translate]') selects.
Matched(doc) == {i \in Elems : doc[i].translate # Undefined}

\* The message contains the word.
Names(message, word) ==
    \E at \in 1 .. Len(message) :
        /\ at + Len(word) - 1 <= Len(message)
        /\ SubSeq(message, at, at + Len(word) - 1) = word

\* The Translator of an attribute-keyed script holds a mapping.
HasSource ==
    \/ script = "attributes" /\ translateMap.is = "object"
    \/ script = "languages" /\ translations.is = "object"

\* The key is a key of the active entry.
Present(key) ==
    IF script = "attributes"
    THEN key \in DOMAIN translateMap.props
    ELSE /\ language \in DOMAIN translations.props
         /\ key \in DOMAIN translations.props[language]

\* The text the active entry maps the key to.
ActiveText(key) ==
    IF script = "attributes"
    THEN translateMap.props[key]
    ELSE translations.props[language][key]

\* The warnings of the last call that name the key and, in the languages
\* script, the active language.
WarningsNaming(key) ==
    {j \in DOMAIN warnings :
        /\ Names(warnings[j], key)
        /\ script = "languages" => Names(warnings[j], language)}

AfterTranslate ==
    /\ script \in {"attributes", "languages"}
    /\ lastOp.op = "translate"
    /\ HasSource

---------------------------------------------------------------------------
\* C1: after translate(), every element whose key is present in the active
\* entry, whatever text the entry gives it, shows that text, and no warning
\* names its key.
C1_PresentKeyShowsItsText ==
    AfterTranslate =>
        \A i \in Matched(before) :
            Present(before[i].translate) =>
                /\ document[i].innerHTML = ActiveText(before[i].translate)
                /\ WarningsNaming(before[i].translate) = {}

\* C2: after translate() of a Translator that holds a mapping, every matched
\* element whose key is absent from the active entry keeps the text it had,
\* each absent key is named by exactly one warning per element carrying it,
\* the call does not throw, and every matched element was either translated
\* or warned about.
C2_AbsentKeyKeepsTextAndWarnsOnce ==
    AfterTranslate =>
        /\ ~raised
        /\ \A i \in Matched(before) :
              ~Present(before[i].translate) => document[i] = before[i]
        /\ \A key \in Keys :
              ~Present(key) =>
                  Cardinality(WarningsNaming(key))
                      = Cardinality({i \in Matched(before) : before[i].translate = key})
        /\ \A i \in Matched(before) :
              \/ /\ Present(before[i].translate)
                 /\ document[i].innerHTML = ActiveText(before[i].translate)
              \/ WarningsNaming(before[i].translate) # {}

\* A pass in which one element's key is absent and another element is translated.
C2_Witness ==
    /\ AfterTranslate
    /\ \E i, j \in Matched(before) :
          /\ ~Present(before[i].translate)
          /\ Present(before[j].translate)
          /\ document[j] # before[j]

\* C3: a translate() that directly follows a translate() of the same
\* Translator (in the rules script, of the same rule) leaves the text of
\* every element as the first call left it.
C3_SecondTranslateChangesNothing ==
    (/\ lastOp.op = "translate"
     /\ prevOp.op = "translate"
     /\ script = "rules" => lastOp.rule = prevOp.rule) =>
        \A i \in Elems : document[i].innerHTML = before[i].innerHTML

\* The same rule applied twice to a page on which it has put its markup text.
C3_Witness ==
    /\ script = "rules"
    /\ lastOp.op = "translate"
    /\ prevOp.op = "translate"
    /\ lastOp.rule = prevOp.rule
    /\ lastOp.rule.translateTo = Steik
    /\ \E i \in Elems : document[i].innerHTML = Steik

\* C4: after setLanguage(t) followed by translate(), every element whose key
\* is present in translations[t] shows translations[t][key], whatever was
\* called before.
C4_SwitchShowsTheNewLanguage ==
    (script = "languages" /\ lastOp.op = "translate" /\ prevOp.op = "setLanguage") =>
        LET t == prevOp.language
        IN  \A i \in Matched(before) :
                (/\ t \in DOMAIN translations.props
                 /\ before[i].translate \in DOMAIN translations.props[t]) =>
                    document[i].innerHTML = translations.props[t][before[i].translate]

\* The constructor was given '' or undefined as its language.
AbsentTag(op) == ~Truthy(op.language)

\* The constructor was given a language tag that the table has no entry for.
UnknownTag(op) ==
    /\ Truthy(op.language)
    /\ \/ op.translations.is # "object"
       \/ op.language \notin DOMAIN op.translations.props

\* C5: constructed with '' or undefined as language, the Translator's active
\* language is 'en', and its first translate() does to the page, and warns,
\* exactly what that of a Translator constructed with 'en' does.
C5_AbsentTagIsEn ==
    script = "languages" =>
        /\ (lastOp.op = "new" /\ AbsentTag(lastOp)) => language = en
        /\ (prevOp.op = "new" /\ AbsentTag(prevOp) /\ lastOp.op = "translate") =>
              LET withEn == constructorLanguages(en, prevOp.translations)
                  pass == translateInFrom(1, Started(before), withEn.language,
                                          withEn.translations)
              IN  /\ document = pass.document
                  /\ warnings = pass.warnings
                  /\ raised = pass.raised

\* The first translate() after construction with an absent tag wrote an
\* English text.
C5_Witness ==
    /\ script = "languages"
    /\ prevOp.op = "new"
    /\ AbsentTag(prevOp)
    /\ lastOp.op = "translate"
    /\ \E i \in Elems : document[i].innerHTML = Hello /\ before[i].innerHTML = Old

\* C6 as stated: constructed with a non-empty tag that is not a key of the
\* table, the Translator's active language is 'en' and its first translate()
\* resolves the keys against translations['en'].
C6_UnknownTagFallsBackToEn ==
    script = "languages" =>
        /\ (lastOp.op = "new" /\ UnknownTag(lastOp)) => language = en
        /\ (prevOp.op = "new" /\ UnknownTag(prevOp) /\ lastOp.op = "translate") =>
              document = translateInFrom(1, Started(before), en, translations).document

\* C6 as amended: constructed with a non-empty tag that is not a key of the
\* table, the Translator keeps that tag as its active language, and its first
\* translate() resolves no key: the page is unchanged and every matched
\* element gets one warning, which names that tag.
C6_UnknownTagIsKept ==
    script = "languages" =>
        /\ (lastOp.op = "new" /\ UnknownTag(lastOp)) => language = lastOp.language
        /\ (prevOp.op = "new" /\ UnknownTag(prevOp) /\ lastOp.op = "translate") =>
              /\ document = before
              /\ ~raised
              /\ Len(warnings) = Cardinality(Matched(before))
              /\ \A j \in DOMAIN warnings : Names(warnings[j], prevOp.language)

\* The first translate() after construction with an unknown tag, on a page
\* with an element that translations['en'] has a text for.
C6_Witness ==
    /\ script = "languages"
    /\ prevOp.op = "new"
    /\ UnknownTag(prevOp)
    /\ lastOp.op = "translate"
    /\ en \in DOMAIN translations.props
    /\ \E i \in Matched(before) :
          /\ before[i].translate \in DOMAIN translations.props[en]
          /\ Truthy(translations.props[en][before[i].translate])

\* C7: a property read on the proxy of a translation map returns the map's
\* text for a key of the map and a fallback that contains the key for any
\* other key; it leaves the map and the page as they were.
C7_ReadReturnsTextOrFallback ==
    (script = "proxy" /\ lastOp.op = "get" /\ translations.is = "object") =>
        /\ ~raised
        /\ IF lastOp.prop \in DOMAIN translations.props
           THEN returned = translations.props[lastOp.prop]
           ELSE returned # Undefined /\ Names(returned, lastOp.prop)
        /\ document = before
        /\ prevOp.op = "new" => translations = prevOp.translations

\* The records of the list whose class and source text match the element,
\* the texts compared case-insensitively.
MatchingRules(list, element) ==
    {n \in DOMAIN list :
        /\ list[n].translateItem = element.className
        /\ toLowerCase(innerText(element)) = toLowerCase(list[n].translateFor)}

\* C8: after the loop over translateList, every element whose original text
\* matches some record of its class ends with the destination text of the
\* first such record, and every other element is unchanged.
C8_FirstMatchingRuleWins ==
    (script = "rules" /\ lastOp.op = "forEach") =>
        \A i \in Elems :
            LET matching == MatchingRules(translateList, before[i])
                first == CHOOSE n \in matching : \A m \in matching : n <= m
            IN  IF matching = {}
                THEN document[i] = before[i]
                ELSE document[i].innerHTML = translateList[first].translateTo

\* The constructor of the script was given undefined or null as its source.
AbsentSource(op) ==
    IF script = "attributes"
    THEN op.translateMap.is # "object"
    ELSE op.translations.is # "object"

\* C9: no call throws to its caller, and a Translator constructed with
\* undefined or null as its translation source behaves as one with an empty
\* mapping: its translate() warns about every matched element and changes
\* nothing, its proxy returns the fallback for every key.
C9_AbsentSourceIsAnEmptyMapping ==
    /\ ~raised
    /\ (/\ script \in {"attributes", "languages"}
        /\ prevOp.op = "new"
        /\ AbsentSource(prevOp)
        /\ lastOp.op = "translate") =>
            /\ document = before
            /\ Len(warnings) = Cardinality(Matched(before))
    /\ (/\ script = "proxy"
        /\ prevOp.op = "new"
        /\ AbsentSource(prevOp)
        /\ lastOp.op = "get") =>
            returned = NotFoundForKey \o lastOp.prop

\* C10: setLanguage(tag) sets the active language to tag, whether or not the
\* table has it, and changes neither the table nor the page; it warns about
\* nothing and does not throw.
C10_SetLanguageSetsOnlyTheLanguage ==
    [][(script = "languages" /\ lastOp'.op = "setLanguage") =>
          /\ language' = lastOp'.language
          /\ translations' = translations
          /\ document' = document
          /\ warnings' = << >>
          /\ ~raised']_vars

\* setLanguage with a tag the table has not, on a page already translated
\* that the tag's predecessor has texts for.
C10_Witness ==
    /\ script = "languages"
    /\ lastOp.op = "setLanguage"
    /\ prevOp.op = "translate"
    /\ language = lastOp.language
    /\ language \notin DOMAIN translations.props
    /\ \E i \in Elems : document[i].innerHTML # Old

\* The matched elements of the page, in document order.
MatchedInOrder(doc) ==
    LET RECURSIVE from(_)
        from(i) == IF i > NumElems THEN << >>
                   ELSE IF doc[i].translate # Undefined THEN <<i>> \o from(i + 1)
                   ELSE from(i + 1)
    IN  from(1)

\* C11: translate() with an active language that the table has no entry for
\* does not throw and changes no element; its warnings are, in page order,
\* one missing-translation message per matched element, with the element's
\* key and the language, and nothing else is reported.
C11_MissingLanguageIsPerKeyMisses ==
    (/\ script = "languages"
     /\ lastOp.op = "translate"
     /\ language \notin DOMAIN translations.props) =>
        LET visited == MatchedInOrder(before)
        IN  /\ ~raised
            /\ document = before
            /\ Len(warnings) = Len(visited)
            /\ \A j \in DOMAIN visited :
                  warnings[j] = NotFoundForKey \o before[visited[j]].translate
                                    \o InLanguage \o language

\* Such a pass, after setLanguage to a tag the table has not, over two
\* matched elements that another language of the table has texts for.
C11_Witness ==
    /\ script = "languages"
    /\ lastOp.op = "translate"
    /\ prevOp.op = "setLanguage"
    /\ language \notin DOMAIN translations.props
    /\ Len(warnings) >= 2
    /\ \E tag \in DOMAIN translations.props :
          \E i \in Matched(before) :
              /\ before[i].translate \in DOMAIN translations.props[tag]
              /\ Truthy(translations.props[tag][before[i].translate])

\* The text that one language of the table has for the element's key, or
\* undefined.
TextIn(tag, element) ==
    IF tag \in DOMAIN translations.props
    THEN Get(translations.props[tag], element.translate)
    ELSE Undefined

\* C12: translate() changes neither the active language nor the table, and
\* one pass resolves every element it visits against that one language:
\* every element the pass wrote shows the active language's text for its
\* key, and every warning of the pass names the active language.  After
\* construction the active language changes in setLanguage calls only.
C12_OnePassOneLanguage ==
    [][/\ (script = "languages" /\ lastOp'.op = "translate") =>
            /\ language' = language
            /\ translations' = translations
            /\ \A i \in Elems :
                  document'[i] # document[i] =>
                      /\ document'[i].innerHTML = TextIn(language, document[i])
                      /\ document'[i].translate = document[i].translate
            /\ \A j \in DOMAIN warnings' :
                  SubSeq(warnings'[j], Len(warnings'[j]) - Len(language) + 1,
                         Len(warnings'[j])) = language
       /\ (script = "languages" /\ lastOp.op # "load" /\ language' # language) =>
            lastOp'.op = "setLanguage"]_vars

\* A pass, after a switch of language, that wrote two elements, both with
\* the new language's text, on a page showing another language's text.
C12_Witness ==
    /\ script = "languages"
    /\ lastOp.op = "translate"
    /\ prevOp.op = "setLanguage"
    /\ \E i, j \in Elems :
          /\ i # j
          /\ before[i].innerHTML \notin {Old, EmptyString}
          /\ before[j].innerHTML \notin {Old, EmptyString}
          /\ document[i] # before[i]
          /\ document[j] # before[j]
          /\ document[i].innerHTML = TextIn(language, before[i])
          /\ document[j].innerHTML = TextIn(language, before[j])

\* The message translate() logs for a key it finds no translation for.
NotFoundMessage(key) ==
    IF script = "attributes"
    THEN NotFoundForKey \o key
    ELSE NotFoundForKey \o key \o InLanguage \o language

\* The key is present in the active entry with the empty string as its text.
PresentButEmpty(key) == Present(key) /\ ActiveText(key) = EmptyString

====
